---------------------------- MODULE Spec2Model ----------------------------
(***************************************************************************)
(* Request authorization of the charm store API handler                    *)
(* (internal/v4/auth.go).                                                  *)
(*                                                                         *)
(* Text that the code parses (the Authorization header, the credentials,   *)
(* principal names, attribute values) is a sequence of byte codes, so that *)
(* strings.Fields, base64 decoding and strings.SplitN are computed as the  *)
(* code computes them.  Text that the code only compares with a literal or *)
(* passes on (the method, the identity location, the cookie path, error    *)
(* messages) is a TLA+ string.                                             *)
(***************************************************************************)
EXTENDS Integers, Sequences, FiniteSets

VARIABLES
    config,   \* h.config and h.store.Bakery: fixed when the handler is built
    minted,   \* number of macaroons the bakery has minted so far
    call,     \* the last call made on the handler: operation and inputs
    ret       \* what that call returned, and the collaborator calls it made

vars == <<config, minted, call, ret>>

---------------------------------------------------------------------------
(* Bounds of the model.                                                    *)

\* longest ACL handed to authorize and to checkACLMembership
MaxAclLen == 2
\* longest Read and Write list of an entity
MaxPermLen == 1
\* longest Groups list handed directly to checkACLMembership
MaxGroups == 2
\* macaroons the bakery mints in one behaviour
MaxMinted == 2

---------------------------------------------------------------------------
(* Text.                                                                   *)

Range(s) == {s[i] : i \in 1..Len(s)}

\* Sequences over S of length at most n.
SeqsUpTo(S, n) == UNION {[1..k -> S] : k \in 0..n}

\* "everyone"
Everyone == <<101, 118, 101, 114, 121, 111, 110, 101>>
\* "bob", "eve": user names; "dev", "ops": group names
Bob == <<98, 111, 98>>
Eve == <<101, 118, 101>>
Dev == <<100, 101, 118>>
Ops == <<111, 112, 115>>
\* "Basic"
BasicScheme == <<66, 97, 115, 105, 99>>
\* the byte of ":"
Colon == 58
\* the byte of "="
Pad == 61

usernameAttr == "username"
groupsAttr == "groups"

\* unicode.IsSpace on the ASCII range: \t \n \v \f \r and space.
IsSpace(c) == c \in {9, 10, 11, 12, 13, 32}

\* Length of the longest prefix of s that holds no white space.
WordLen(s) ==
    IF \E i \in 1..Len(s) : IsSpace(s[i])
    THEN (CHOOSE i \in 1..Len(s) :
             IsSpace(s[i]) /\ \A j \in 1..(i - 1) : ~IsSpace(s[j])) - 1
    ELSE Len(s)

\* strings.Fields: the maximal runs of non-space bytes, in order.
RECURSIVE Fields(_)
Fields(s) ==
    IF s = <<>> THEN <<>>
    ELSE IF IsSpace(Head(s)) THEN Fields(Tail(s))
    ELSE <<SubSeq(s, 1, WordLen(s))>>
            \o Fields(SubSeq(s, WordLen(s) + 1, Len(s)))

\* The index of the first sep in s.
FirstIndex(s, sep) ==
    CHOOSE k \in 1..Len(s) : s[k] = sep /\ \A j \in 1..(k - 1) : s[j] # sep

\* strings.SplitN(s, ":", 2): split at the first separator, if there is one.
SplitN2(s, sep) ==
    IF \E i \in 1..Len(s) : s[i] = sep
    THEN <<SubSeq(s, 1, FirstIndex(s, sep) - 1),
           SubSeq(s, FirstIndex(s, sep) + 1, Len(s))>>
    ELSE <<s>>

\* The six-bit value of a byte of the standard base64 alphabet, -1 for a
\* byte outside it.
Sextet(c) ==
    IF c >= 65 /\ c <= 90 THEN c - 65
    ELSE IF c >= 97 /\ c <= 122 THEN c - 71
    ELSE IF c >= 48 /\ c <= 57 THEN c + 4
    ELSE IF c = 43 THEN 62
    ELSE IF c = 47 THEN 63
    ELSE -1

\* base64.CorruptInputError
Corrupt == [ok |-> FALSE, bytes |-> <<>>]

\* The bytes of a quantum followed by the bytes of the rest of the input.
Decoded(bytes, rest) ==
    IF rest.ok THEN [ok |-> TRUE, bytes |-> bytes \o rest.bytes] ELSE Corrupt

\* One quantum of four bytes: a, b, c, d are their six-bit values, pad3 and
\* pad4 tell whether the third and the fourth are the padding byte, last
\* whether the input ends with this quantum, and rest is the decoding of what
\* follows it.  Padding is allowed at the end of the last quantum only; the
\* bits left over before padding are ignored.
DecodeQuantum(a, b, c, d, pad3, pad4, last, rest) ==
    IF a < 0 \/ b < 0 THEN Corrupt
    ELSE IF pad3
    THEN IF last /\ pad4
         THEN [ok |-> TRUE, bytes |-> <<a * 4 + b \div 16>>]
         ELSE Corrupt
    ELSE IF c < 0 THEN Corrupt
    ELSE IF pad4
    THEN IF last
         THEN [ok |-> TRUE,
               bytes |-> <<a * 4 + b \div 16, (b % 16) * 16 + c \div 4>>]
         ELSE Corrupt
    ELSE IF d < 0 THEN Corrupt
    ELSE Decoded(<<a * 4 + b \div 16, (b % 16) * 16 + c \div 4,
                   (c % 4) * 64 + d>>, rest)

\* base64.StdEncoding.DecodeString: the input is decoded in quanta of four
\* bytes, and padding is mandatory.
RECURSIVE DecodeString(_)
DecodeString(s) ==
    IF s = <<>> THEN [ok |-> TRUE, bytes |-> <<>>]
    ELSE IF Len(s) < 4 THEN Corrupt
    ELSE DecodeQuantum(Sextet(s[1]), Sextet(s[2]), Sextet(s[3]), Sextet(s[4]),
                       s[3] = Pad, s[4] = Pad, Len(s) = 4,
                       DecodeString(SubSeq(s, 5, Len(s))))

---------------------------------------------------------------------------
(* Errors (gopkg.in/errgo.v1).  An error is known by its cause and its     *)
(* message.  The cause is one of the sentinels the code tests for, or      *)
(* "self" when the error is its own cause: a value that equals no sentinel *)
(* and is of no tested type.                                               *)

NoMacaroon == [id |-> 0, location |-> "", condition |-> "", declared |-> <<>>]

Error(cause, msg) ==
    [cause |-> cause, msg |-> msg, macaroon |-> NoMacaroon, path |-> ""]

\* the nil error
Nil == Error("nil", "")

\* errgo.New, errgo.Newf
New(msg) == Error("self", msg)

\* errgo.WithCausef(underlying, cause, f): the given cause; with an empty
\* format the message is the underlying error's.
WithCausef(underlying, cause, msg) ==
    Error(cause, IF msg = "" THEN underlying.msg ELSE msg)

\* errgo.Mask(err, pass): the cause of err is kept when it passes, and
\* masked otherwise; the message is that of err.  passes tells whether pass
\* allows the cause of err.
Mask(err, passes) ==
    IF passes THEN Error(err.cause, err.msg) ELSE Error("self", err.msg)

\* errgo.Any
Any(cause) == TRUE

\* errgo.Notef(err, msg): the cause is masked.
Notef(err, msg) == Error("self", msg)

\* errgo.Cause
Cause(err) == err.cause

\* params.ErrUnauthorized, params.ErrNotFound
ErrUnauthorized == "ErrUnauthorized"
ErrNotFound == "ErrNotFound"

\* errgo.Is(params.ErrUnauthorized)
IsErrUnauthorized(cause) == cause = ErrUnauthorized

\* the type *bakery.VerificationError
VerificationError == "VerificationError"

\* the type *httpbakery.Error with code ErrDischargeRequired
DischargeRequired == "DischargeRequired"

\* errNoCreds: made by errgo.New, and the one such error the code compares
\* other errors with.
errNoCreds == Error("errNoCreds", "missing HTTP auth header")

---------------------------------------------------------------------------
(* parseCredentials.                                                       *)

Credentials(username, password, err) ==
    [username |-> username, password |-> password, err |-> err]

\* The decoded challenge is "tag:pass".
parseChallenge(tokens) ==
    IF Len(tokens) # 2
    THEN Credentials(<<>>, <<>>, New("invalid HTTP auth contents"))
    ELSE Credentials(tokens[1], tokens[2], Nil)

\* The second field is the challenge in base64.
parseEncoding(challenge) ==
    IF ~challenge.ok
    THEN Credentials(<<>>, <<>>, New("invalid HTTP auth encoding"))
    ELSE parseChallenge(SplitN2(challenge.bytes, Colon))

\* The header is split into fields.
parseFields(parts) ==
    IF Len(parts) # 2 \/ parts[1] # BasicScheme
    THEN Credentials(<<>>, <<>>, New("invalid HTTP auth header"))
    ELSE parseEncoding(DecodeString(parts[2]))

parseCredentials(req) ==
    IF req.Authorization = <<>> THEN Credentials(<<>>, <<>>, errNoCreds)
    ELSE parseFields(Fields(req.Authorization))

---------------------------------------------------------------------------
(* checkRequest.                                                           *)

\* type authorization
authorization(Admin, Username, Groups) ==
    [Admin |-> Admin, Username |-> Username, Groups |-> Groups]

\* authorization{}
ZeroAuthorization == authorization(FALSE, <<>>, <<>>)

\* attrMap[key]: the value of the key, and the empty string without it.
\* An attribute map is a set of <<key, value>> pairs, one per key.
Attr(attrMap, key) ==
    IF \E p \in attrMap : p[1] = key
    THEN (CHOOSE p \in attrMap : p[1] = key)[2]
    ELSE <<>>

\* A variant that compares the user name alone.
credentialsMismatch_userOnly(cfg, user, passwd) == user # cfg.AuthUsername

\* user != h.config.AuthUsername || passwd != h.config.AuthPassword
credentialsMismatch(cfg, user, passwd) ==
    user # cfg.AuthUsername \/ passwd # cfg.AuthPassword

\* What checkRequest returns: the authorization, the error, and the
\* credential extraction and collaborator calls it made, in order.
Resolved(auth, err, calls) == [auth |-> auth, err |-> err, calls |-> calls]

\* checkRequest after parseCredentials has returned c.  verify is the answer
\* httpbakery.CheckRequest gives for this request.
checkCredentials(cfg, verify, c) ==
    IF c.err = Nil
    THEN IF credentialsMismatch(cfg, c.username, c.password)
         THEN Resolved(ZeroAuthorization,
                       WithCausef(Nil, ErrUnauthorized,
                                  "invalid user name or password"),
                       <<"parseCredentials">>)
         ELSE Resolved(authorization(TRUE, <<>>, <<>>), Nil,
                       <<"parseCredentials">>)
    ELSE IF Cause(c.err) # Cause(errNoCreds) \/ ~cfg.Bakery
              \/ cfg.IdentityLocation = ""
    THEN Resolved(ZeroAuthorization,
                  WithCausef(c.err, ErrUnauthorized, "authentication failed"),
                  <<"parseCredentials">>)
    ELSE IF verify.err # Nil
    THEN Resolved(ZeroAuthorization, Mask(verify.err, Any(Cause(verify.err))),
                  <<"parseCredentials", "CheckRequest">>)
    ELSE Resolved(authorization(FALSE,
                                Attr(verify.attrs, usernameAttr),
                                Fields(Attr(verify.attrs, groupsAttr))),
                  Nil,
                  <<"parseCredentials", "CheckRequest">>)

checkRequest(cfg, req, verify) ==
    checkCredentials(cfg, verify, parseCredentials(req))

---------------------------------------------------------------------------
(* checkACLMembership.                                                     *)

\* A variant that leaves the groups out.
members_noGroups(auth) == {Everyone, auth.Username}

\* The members map: params.Everyone, the user name and every group.
members(auth) == {Everyone, auth.Username} \cup Range(auth.Groups)

\* A variant that asks for a user name before it looks at Admin.
checkACLMembership_usernameFirst(auth, acl) ==
    IF auth.Username = <<>> THEN New("no username declared")
    ELSE IF auth.Admin THEN Nil
    ELSE IF \E i \in 1..Len(acl) : acl[i] \in members(auth) THEN Nil
    ELSE New("access denied for user")

\* A variant that tests the membership before it asks for a user name.
checkACLMembership_membersFirst(auth, acl) ==
    IF auth.Admin THEN Nil
    ELSE IF \E i \in 1..Len(acl) : acl[i] \in members(auth) THEN Nil
    ELSE IF auth.Username = <<>> THEN New("no username declared")
    ELSE New("access denied for user")

checkACLMembership(auth, acl) ==
    IF auth.Admin THEN Nil
    ELSE IF auth.Username = <<>> THEN New("no username declared")
    ELSE IF \E i \in 1..Len(acl) : acl[i] \in members(auth) THEN Nil
    ELSE New("access denied for user")

---------------------------------------------------------------------------
(* newMacaroon and authorize.                                              *)

\* h.store.Bakery.NewMacaroon("", nil, caveats): mint is the answer of the
\* bakery, n the number of macaroons it has minted before.  A new macaroon
\* gets the next identifier and carries the caveat asked for.
newMacaroon(cfg, mint, n) ==
    IF mint = "ok"
    THEN [m |-> [id |-> n + 1,
                 location |-> cfg.IdentityLocation,
                 condition |-> "is-authenticated-user",
                 declared |-> <<usernameAttr, groupsAttr>>],
          err |-> Nil,
          minted |-> n + 1]
    ELSE [m |-> NoMacaroon, err |-> New("bakery cannot mint"), minted |-> n]

\* httpbakery.NewDischargeRequiredError(m, path, originalErr)
NewDischargeRequiredError(m, path, originalErr) ==
    [cause |-> DischargeRequired, msg |-> originalErr.msg,
     macaroon |-> m, path |-> path]

\* A variant that looks at the first name of the ACL alone.
isOpen_firstOnly(acl) == Len(acl) > 0 /\ acl[1] = Everyone

\* The ACL is open to everyone.
isOpen(acl) == \E i \in 1..Len(acl) : acl[i] = Everyone

\* A variant with a relative path.
cookiePath_relative == ""

\* cookiePath := "/"
cookiePath == "/"

\* A variant that takes every failure for a verification failure.
isVerificationError_anyError(verr) == TRUE

\* The resolver failed because macaroon verification failed.
isVerificationError(verr) == Cause(verr) = VerificationError

\* A variant that masks every cause.
maskResolverError_maskAll(verr) == Notef(verr, verr.msg)

\* What authorize returns for a resolver failure that is no verification
\* failure.
maskResolverError(verr) == Mask(verr, IsErrUnauthorized(Cause(verr)))

\* What a call on the handler returns: the error, the calls made in order,
\* and the number of macaroons minted afterwards.
Result(err, calls, n) == [err |-> err, calls |-> calls, minted |-> n]

\* The user is authenticated: err is what checkACLMembership returned.
membershipResult(err) ==
    IF err # Nil THEN WithCausef(err, ErrUnauthorized, "") ELSE Nil

\* Macaroon verification failed with r: mac is what newMacaroon returned.
mintResult(r, mac) ==
    IF mac.err # Nil
    THEN Result(Notef(mac.err, "cannot mint macaroon"),
                Append(r.calls, "NewMacaroon"), mac.minted)
    ELSE Result(NewDischargeRequiredError(mac.m, cookiePath, r.err),
                Append(r.calls, "NewMacaroon"), mac.minted)

\* authorize after checkRequest has returned r.
authorizeResolved(cfg, acl, mint, n, r) ==
    IF r.err = Nil
    THEN Result(membershipResult(checkACLMembership(r.auth, acl)), r.calls, n)
    ELSE IF ~isVerificationError(r.err)
    THEN Result(maskResolverError(r.err), r.calls, n)
    ELSE mintResult(r, newMacaroon(cfg, mint, n))

\* bakery holds the answers of the two collaborator calls, verify and mint.
authorize(cfg, req, acl, bakery, n) ==
    IF isOpen(acl) THEN Result(Nil, <<>>, n)
    ELSE authorizeResolved(cfg, acl, bakery.mint, n,
                           checkRequest(cfg, req, bakery.verify))

---------------------------------------------------------------------------
(* authorizeWithPerms and authorizeEntity.                                 *)

\* A variant that takes PATCH for a reading method.
selectACL_noPatch(method, read, write) ==
    IF method \in {"DELETE", "POST", "PUT"} THEN write ELSE read

\* The list the method selects.
selectACL(method, read, write) ==
    IF method \in {"DELETE", "PATCH", "POST", "PUT"} THEN write ELSE read

authorizeWithPerms(cfg, req, read, write, bakery, n) ==
    authorize(cfg, req, selectACL(req.Method, read, write), bakery, n)

\* The entity is found: r is what authorizeWithPerms returned.
afterLookup(r) == Result(r.err, <<"FindBaseEntity">> \o r.calls, r.minted)

\* A variant that goes on with the lists of the zero entity when the lookup
\* fails.
authorizeEntity_ignoresError(cfg, req, lookup, bakery, n) ==
    afterLookup(authorizeWithPerms(cfg, req, lookup.Read, lookup.Write,
                                   bakery, n))

\* lookup is the answer of h.store.FindBaseEntity(&id.URL, "acls").
authorizeEntity(cfg, req, lookup, bakery, n) ==
    IF lookup.err # Nil
    THEN IF Cause(lookup.err) = ErrNotFound
         THEN Result(WithCausef(Nil, ErrNotFound, "entity not found"),
                     <<"FindBaseEntity">>, n)
         ELSE Result(Notef(lookup.err,
                           "cannot retrieve entity for authorization"),
                     <<"FindBaseEntity">>, n)
    ELSE afterLookup(authorizeWithPerms(cfg, req, lookup.Read, lookup.Write,
                                        bakery, n))

---------------------------------------------------------------------------
(* Inputs.                                                                 *)

\* "ad" and "p:w": the administrator's name and password
AdminUser == <<97, 100>>
AdminPassword == <<112, 58, 119>>

Configs ==
    [AuthUsername : {AdminUser}, AuthPassword : {AdminPassword},
     Bakery : BOOLEAN, IdentityLocation : {"", "https://idm.example"}]

Methods == {"GET", "HEAD", "DELETE", "PATCH", "POST", "PUT", "post"}

\* no header, or an empty one
NoHeader == <<>>
\* "Basic YWQ6cDp3": ad:p:w, the administrator
AdminHeader == <<66, 97, 115, 105, 99, 32, 89, 87, 81, 54, 99, 68, 112, 51>>
\* " Basic  YWQ6cDp3\t": the same with more white space
AdminHeaderSpaced ==
    <<32, 66, 97, 115, 105, 99, 32, 32, 89, 87, 81, 54, 99, 68, 112, 51, 9>>
\* "Basic YWQ6cHc=": ad:pw, a wrong password
WrongPasswordHeader ==
    <<66, 97, 115, 105, 99, 32, 89, 87, 81, 54, 99, 72, 99, 61>>
\* "Basic eGQ6cDp3": xd:p:w, a wrong user name
WrongUserHeader ==
    <<66, 97, 115, 105, 99, 32, 101, 71, 81, 54, 99, 68, 112, 51>>
\* "Basic Og==": an empty user name and an empty password
EmptyPairHeader == <<66, 97, 115, 105, 99, 32, 79, 103, 61, 61>>
\* " ": white space only
BlankHeader == <<32>>
\* "basic YWQ6cDp3": the scheme in lower case
LowerSchemeHeader ==
    <<98, 97, 115, 105, 99, 32, 89, 87, 81, 54, 99, 68, 112, 51>>
\* "Basic YWQ6cDp3 x": three fields
ThreeFieldsHeader ==
    <<66, 97, 115, 105, 99, 32, 89, 87, 81, 54, 99, 68, 112, 51, 32, 120>>
\* "Basic YWQ6cHc": the padding is missing
NoPaddingHeader == <<66, 97, 115, 105, 99, 32, 89, 87, 81, 54, 99, 72, 99>>
\* "Basic YWQ!": a byte outside the alphabet
BadByteHeader == <<66, 97, 115, 105, 99, 32, 89, 87, 81, 33>>
\* "Basic YWQ=": ad, no colon
NoColonHeader == <<66, 97, 115, 105, 99, 32, 89, 87, 81, 61>>

MalformedHeaders ==
    {BlankHeader, LowerSchemeHeader, ThreeFieldsHeader, NoPaddingHeader,
     BadByteHeader, NoColonHeader}

WrongHeaders == {WrongPasswordHeader, WrongUserHeader, EmptyPairHeader}

Headers ==
    {NoHeader, AdminHeader, AdminHeaderSpaced} \cup WrongHeaders
        \cup MalformedHeaders

Requests == [Method : Methods, Authorization : Headers]

\* Names that appear in ACLs.
Principals == {Everyone, Bob, Dev, <<>>}

ACLs == SeqsUpTo(Principals, MaxAclLen)

PermLists == SeqsUpTo(Principals, MaxPermLen)

\* "dev" and " ops\tdev ": values of the groups attribute
GroupsDev == <<100, 101, 118>>
GroupsOpsDev == <<32, 111, 112, 115, 9, 100, 101, 118, 32>>

AttrMaps ==
    {u \cup g : u \in {{}, {<<usernameAttr, Bob>>}, {<<usernameAttr, Eve>>}},
                g \in {{}, {<<groupsAttr, GroupsDev>>},
                       {<<groupsAttr, GroupsOpsDev>>}}}

\* Answers of httpbakery.CheckRequest: the declared attributes, a
\* verification error, or another failure.
VerifyAnswers ==
    {[err |-> Nil, attrs |-> a] : a \in AttrMaps}
        \cup {[err |-> Error(VerificationError, "verification failed"),
               attrs |-> {}],
              [err |-> Error("self", "cannot get macaroon"), attrs |-> {}]}

MintAnswers == {"ok", "error"}

\* Answers of h.store.FindBaseEntity.
LookupAnswers ==
    {[err |-> Nil, Read |-> rd, Write |-> wr] :
        rd \in PermLists, wr \in PermLists}
        \cup {[err |-> Error(ErrNotFound, "entity not found"),
               Read |-> <<>>, Write |-> <<>>],
              [err |-> Error("self", "store unavailable"),
               Read |-> <<>>, Write |-> <<>>]}

Authorizations ==
    {authorization(a, u, g) :
        a \in BOOLEAN, u \in {<<>>, Bob, Eve},
        g \in SeqsUpTo({Everyone, Dev, Ops, <<>>}, MaxGroups)}

---------------------------------------------------------------------------
(* The state machine.  The dispatch layer makes one call on the handler    *)
(* for a request and takes its result; nothing of a decision is kept for   *)
(* the next one but the macaroons the bakery has minted.                   *)

NoRequest == [Method |-> "", Authorization |-> <<>>]
NotAsked == [err |-> Error("not asked", ""), attrs |-> {}]
NoLookup == [err |-> Error("not asked", ""), Read |-> <<>>, Write |-> <<>>]
NoBakery == [verify |-> NotAsked, mint |-> "not asked"]
NoCall ==
    [op |-> "none", req |-> NoRequest, acl |-> <<>>, read |-> <<>>,
     write |-> <<>>, auth |-> ZeroAuthorization, lookup |-> NoLookup,
     verify |-> NotAsked, mint |-> "not asked", minted |-> 0]
NoReturn == [err |-> Nil, calls |-> <<>>]

Asked(r, name) == name \in Range(r.calls)

\* The answers the bakery may give in a call that, with the bakery b0,
\* gives the result r0.  Whether a collaborator is asked at all does not
\* depend on its own answer, so a collaborator that r0 does not ask needs no
\* answer.
Bakeries(r0) ==
    [verify : IF Asked(r0, "CheckRequest") THEN VerifyAnswers ELSE {NotAsked},
     mint : IF Asked(r0, "CheckRequest") THEN MintAnswers ELSE {"not asked"}]

\* A bakery whose verification fails and whose minting succeeds.
ProbeBakery ==
    [verify |-> [err |-> Error(VerificationError, "verification failed"),
                 attrs |-> {}],
     mint |-> "ok"]

\* The record of a call.  An answer of a collaborator is recorded when the
\* call asked for it.
Called(op, req, acl, read, write, auth, lookup, bakery, r) ==
    [op |-> op, req |-> req, acl |-> acl, read |-> read, write |-> write,
     auth |-> auth,
     lookup |-> lookup,
     verify |-> IF Asked(r, "CheckRequest") THEN bakery.verify ELSE NotAsked,
     mint |-> IF Asked(r, "NewMacaroon") THEN bakery.mint ELSE "not asked",
     minted |-> minted]

Init ==
    /\ config \in Configs
    /\ minted = 0
    /\ call = NoCall
    /\ ret = NoReturn

\* A call returns r.
Return(op, req, acl, read, write, auth, lookup, bakery, r) ==
    /\ r.minted <= MaxMinted
    /\ call' = Called(op, req, acl, read, write, auth, lookup, bakery, r)
    /\ ret' = [err |-> r.err, calls |-> r.calls]
    /\ minted' = r.minted
    /\ UNCHANGED config

Authorize ==
    /\ call.op = "none"
    /\ \E req \in Requests, acl \in ACLs :
         \E bakery \in Bakeries(authorize(config, req, acl, ProbeBakery, minted)) :
           Return("authorize", req, acl, <<>>, <<>>, ZeroAuthorization,
                  NoLookup, bakery,
                  authorize(config, req, acl, bakery, minted))

AuthorizeWithPerms ==
    /\ call.op = "none"
    /\ \E req \in Requests, read \in PermLists, write \in PermLists :
         \E bakery \in Bakeries(authorizeWithPerms(config, req, read, write,
                                                   ProbeBakery, minted)) :
           Return("authorizeWithPerms", req, <<>>, read, write,
                  ZeroAuthorization, NoLookup, bakery,
                  authorizeWithPerms(config, req, read, write, bakery, minted))

AuthorizeEntity ==
    /\ call.op = "none"
    /\ \E req \in Requests, lookup \in LookupAnswers :
         \E bakery \in Bakeries(authorizeEntity(config, req, lookup,
                                                ProbeBakery, minted)) :
           Return("authorizeEntity", req, <<>>, <<>>, <<>>,
                  ZeroAuthorization, lookup, bakery,
                  authorizeEntity(config, req, lookup, bakery, minted))

CheckACLMembership ==
    /\ call.op = "none"
    /\ \E auth \in Authorizations, acl \in ACLs :
         Return("checkACLMembership", NoRequest, acl, <<>>, <<>>, auth,
                NoLookup, NoBakery,
                Result(checkACLMembership(auth, acl), <<>>, minted))

\* The dispatch layer has taken the result of the call.
Respond ==
    /\ call.op # "none"
    /\ call' = NoCall
    /\ ret' = NoReturn
    /\ UNCHANGED <<config, minted>>

Next ==
    \/ Authorize
    \/ AuthorizeWithPerms
    \/ AuthorizeEntity
    \/ CheckACLMembership
    \/ Respond

Spec == Init /\ [][Next]_vars

---------------------------------------------------------------------------
(* The vocabulary of the properties.                                       *)

\* The outcome of a call, in the terms of the design: what the error
\* returned stands for.
Outcome(err) ==
    IF err = Nil THEN "Allow"
    ELSE IF err.cause = ErrUnauthorized THEN "Unauthorized"
    ELSE IF err.cause = DischargeRequired THEN "DischargeRequired"
    ELSE IF err.cause = ErrNotFound THEN "ResourceNotFound"
    ELSE IF err.msg = "cannot mint macaroon" THEN "MintFailed"
    ELSE IF err.msg = "cannot retrieve entity for authorization"
    THEN "AuthorizationUnavailable"
    ELSE IF err.msg = "no username declared" THEN "InvalidIdentity"
    ELSE IF err.msg = "access denied for user" THEN "AccessDenied"
    ELSE "Failure"

Mutating == {"DELETE", "PATCH", "POST", "PUT"}

\* The headers that hold the administrator's credentials.
AdminHeaders == {AdminHeader, AdminHeaderSpaced}

Open(acl) == Everyone \in Range(acl)

\* The list an entry point decides on.
DecidedACL ==
    IF call.op = "authorizeWithPerms"
    THEN IF call.req.Method \in Mutating THEN call.write ELSE call.read
    ELSE IF call.op = "authorizeEntity"
    THEN IF call.req.Method \in Mutating
         THEN call.lookup.Write ELSE call.lookup.Read
    ELSE call.acl

Count(calls, name) == Cardinality({i \in 1..Len(calls) : calls[i] = name})

TrustConfigured == config.Bakery /\ config.IdentityLocation # ""

VerificationFailed ==
    call.verify.err # Nil /\ call.verify.err.cause = VerificationError

\* The macaroon of the result is the one minted in this call: no macaroon
\* minted before has its identifier, and it asks for the declared caveat at
\* the configured location.
FreshMacaroon ==
    /\ ret.err.macaroon.id > call.minted
    /\ ret.err.macaroon.id = minted
    /\ minted = call.minted + 1
    /\ ret.err.macaroon.location = config.IdentityLocation
    /\ ret.err.macaroon.condition = "is-authenticated-user"
    /\ ret.err.macaroon.declared = <<"username", "groups">>

---------------------------------------------------------------------------
(* The properties.                                                         *)

\* C1: authorize on an ACL that contains "everyone" returns Allow, whatever
\* the method and the Authorization header, and makes no call: no credential
\* extraction, no token verification, no minting.
C1_OpenACLAllows ==
    (call.op = "authorize" /\ Open(call.acl))
        => (ret.err = Nil /\ ret.calls = <<>> /\ minted = call.minted)

C1_Witness ==
    /\ call.op = "authorize"
    /\ call.acl = <<Bob, Everyone>>
    /\ call.req.Authorization = WrongPasswordHeader
    /\ call.req.Method = "DELETE"
    /\ ret.err = Nil

\* C2: with a non-empty Authorization header and an ACL without "everyone",
\* authorize never returns DischargeRequired; it returns Allow only for a
\* Basic header with the administrator's name and password; and for a Basic
\* header with a wrong name or password, and for a malformed header, it
\* returns Unauthorized, whatever token verification would answer.
C2_BasicHeaderIsFinal ==
    (call.op = "authorize" /\ call.req.Authorization # <<>>
        /\ ~Open(call.acl))
        => /\ Outcome(ret.err) # "DischargeRequired"
           /\ Outcome(ret.err) = "Allow"
                 => call.req.Authorization \in AdminHeaders
           /\ call.req.Authorization \in WrongHeaders \cup MalformedHeaders
                 => Outcome(ret.err) = "Unauthorized"
           /\ Count(ret.calls, "CheckRequest") = 0

C2_Witness ==
    /\ call.op = "authorize"
    /\ call.req.Authorization = WrongPasswordHeader
    /\ call.acl = <<Bob>>
    /\ TrustConfigured
    /\ Outcome(ret.err) = "Unauthorized"

\* C3 as stated: with no Authorization header, an identity location and an
\* ACL without "everyone", authorize returns DischargeRequired with a fresh
\* macaroon and the path "/".
C3_Original ==
    (call.op = "authorize" /\ call.req.Authorization = <<>>
        /\ config.IdentityLocation # "" /\ ~Open(call.acl))
        => (Outcome(ret.err) = "DischargeRequired" /\ ret.err.path = "/"
            /\ FreshMacaroon)

\* C3 as amended: with no Authorization header, a bakery and an identity
\* location, and an ACL without "everyone", authorize returns
\* DischargeRequired with a fresh macaroon and the path "/" when token
\* verification fails with a verification error and minting succeeds.
C3_DischargeRequired ==
    (call.op = "authorize" /\ call.req.Authorization = <<>>
        /\ TrustConfigured /\ ~Open(call.acl)
        /\ VerificationFailed /\ call.mint = "ok")
        => (Outcome(ret.err) = "DischargeRequired" /\ ret.err.path = "/"
            /\ FreshMacaroon)

C3_Witness ==
    /\ call.op = "authorize"
    /\ call.req.Authorization = <<>>
    /\ TrustConfigured
    /\ call.acl = <<Bob>>
    /\ call.minted = 1
    /\ VerificationFailed
    /\ call.mint = "ok"
    /\ Outcome(ret.err) = "DischargeRequired"
    /\ ret.err.macaroon.id = 2

\* C4: a Basic header with the administrator's name and password makes
\* authorize return Allow for every ACL, with or without a bakery and an
\* identity location; and checkACLMembership allows every authorization with
\* Admin set, for every ACL.
C4_AdminBypass ==
    /\ (call.op = "authorize" /\ call.req.Authorization \in AdminHeaders)
          => ret.err = Nil
    /\ (call.op = "checkACLMembership" /\ call.auth.Admin)
          => ret.err = Nil

C4_Witness ==
    /\ call.op = "authorize"
    /\ call.req.Authorization = AdminHeader
    /\ call.acl = <<>>
    /\ ~config.Bakery
    /\ config.IdentityLocation = ""
    /\ ret.err = Nil

\* C5 as stated: checkACLMembership grants access exactly when the set of
\* "everyone", the user name and the groups meets the ACL.
C5_Original ==
    call.op = "checkACLMembership"
        => (ret.err = Nil
              <=> (({Everyone, call.auth.Username} \cup Range(call.auth.Groups))
                      \cap Range(call.acl)) # {})

\* C5 as amended: for an authorization that is not Admin and has a user
\* name, checkACLMembership grants access exactly when the set of
\* "everyone", the user name and the groups meets the ACL, whatever the
\* order and the repetitions in the groups and in the ACL.
C5_MembershipLaw ==
    (call.op = "checkACLMembership" /\ ~call.auth.Admin
        /\ call.auth.Username # <<>>)
        => (ret.err = Nil
              <=> (({Everyone, call.auth.Username} \cup Range(call.auth.Groups))
                      \cap Range(call.acl)) # {})

C5_Witness ==
    /\ call.op = "checkACLMembership"
    /\ call.auth = authorization(FALSE, Eve, <<Ops, Dev>>)
    /\ call.acl = <<Bob, Dev>>
    /\ ret.err = Nil

\* C6: checkACLMembership fails with "no username declared" for every
\* authorization without Admin and without a user name, whatever the ACL and
\* the groups; and when token verification succeeds without a username
\* attribute, authorize on an ACL without "everyone" returns Unauthorized.
C6_NoUsername ==
    /\ (call.op = "checkACLMembership" /\ ~call.auth.Admin
           /\ call.auth.Username = <<>>)
          => Outcome(ret.err) = "InvalidIdentity"
    /\ (call.op = "authorize" /\ ~Open(call.acl) /\ call.verify.err = Nil
           /\ \A p \in call.verify.attrs : p[1] # "username")
          => (Outcome(ret.err) = "Unauthorized"
              /\ ret.err.msg = "no username declared")

C6_Witness ==
    /\ call.op = "authorize"
    /\ call.acl = <<Dev, <<>>>>
    /\ call.verify.err = Nil
    /\ call.verify.attrs = {<<"groups", GroupsDev>>}
    /\ Outcome(ret.err) = "Unauthorized"

\* C7: authorizeWithPerms returns what authorize returns on the Write list
\* when the method is DELETE, PATCH, POST or PUT, and on the Read list for
\* every other method; an open list that is not selected allows nothing.
C7_MethodSelectsList ==
    call.op = "authorizeWithPerms"
        => /\ ret = [err |-> authorize(config, call.req, DecidedACL,
                                       [verify |-> call.verify,
                                        mint |-> call.mint],
                                       call.minted).err,
                     calls |-> authorize(config, call.req, DecidedACL,
                                         [verify |-> call.verify,
                                          mint |-> call.mint],
                                         call.minted).calls]
           /\ (call.req.Method \in Mutating /\ ~Open(call.write)
                  /\ call.req.Authorization = <<>> /\ call.verify.err # Nil)
                 => ret.err # Nil
           /\ (call.req.Method \notin Mutating /\ ~Open(call.read)
                  /\ call.req.Authorization = <<>> /\ call.verify.err # Nil)
                 => ret.err # Nil
           /\ (call.req.Method \in Mutating /\ Open(call.write))
                 => ret.err = Nil
           /\ (call.req.Method \notin Mutating /\ Open(call.read))
                 => ret.err = Nil

C7_Witness ==
    /\ call.op = "authorizeWithPerms"
    /\ call.req.Method = "PATCH"
    /\ call.req.Authorization = <<>>
    /\ call.read = <<Everyone>>
    /\ call.write = <<Bob>>
    /\ Outcome(ret.err) = "Unauthorized"

\* C8: when the lookup of the entity fails, authorizeEntity returns
\* ResourceNotFound for a NotFound failure and AuthorizationUnavailable for
\* any other, and makes no credential extraction, no token verification and
\* no minting, whatever credentials the request carries.
C8_LookupFailure ==
    (call.op = "authorizeEntity" /\ call.lookup.err # Nil)
        => /\ call.lookup.err.cause = ErrNotFound
                 => Outcome(ret.err) = "ResourceNotFound"
           /\ call.lookup.err.cause # ErrNotFound
                 => Outcome(ret.err) = "AuthorizationUnavailable"
           /\ ret.calls = <<"FindBaseEntity">>
           /\ minted = call.minted

C8_Witness ==
    /\ call.op = "authorizeEntity"
    /\ call.lookup.err.cause = ErrNotFound
    /\ call.req.Authorization = AdminHeader
    /\ Outcome(ret.err) = "ResourceNotFound"

\* C9: in one decision the calls are made in a fixed order, each at most
\* once: credential extraction, then token verification, then minting.
\* Token verification is asked only when the ACL is not open, there is no
\* Authorization header, and a bakery and an identity location are
\* configured; minting only after token verification failed with a
\* verification error.  The decision ends in one outcome; a failed minting
\* ends it as MintFailed, and a macaroon is minted exactly when the outcome
\* is DischargeRequired.
C9_CallOrder ==
    call.op \in {"authorize", "authorizeWithPerms", "authorizeEntity"}
        => /\ \E k \in 0..3 :
                ret.calls =
                    (IF call.op = "authorizeEntity"
                     THEN <<"FindBaseEntity">> ELSE <<>>)
                    \o SubSeq(<<"parseCredentials", "CheckRequest",
                                "NewMacaroon">>, 1, k)
           /\ Count(ret.calls, "CheckRequest") = 1
                 => (~Open(DecidedACL) /\ call.req.Authorization = <<>>
                     /\ TrustConfigured)
           /\ Count(ret.calls, "NewMacaroon") = 1 => VerificationFailed
           /\ Outcome(ret.err) \in
                 {"Allow", "Unauthorized", "DischargeRequired", "MintFailed",
                  "Failure", "ResourceNotFound", "AuthorizationUnavailable"}
           /\ (call.mint = "error") => (Outcome(ret.err) = "MintFailed"
                                         /\ minted = call.minted)
           /\ (Outcome(ret.err) = "DischargeRequired")
                 <=> (minted = call.minted + 1)
           /\ (Outcome(ret.err) = "DischargeRequired")
                 <=> (call.mint = "ok")
           /\ minted \in {call.minted, call.minted + 1}

C9_Witness ==
    /\ call.op = "authorize"
    /\ call.mint = "error"
    /\ ret.calls = <<"parseCredentials", "CheckRequest", "NewMacaroon">>
    /\ Outcome(ret.err) = "MintFailed"

\* The resolver fails with the cause ErrUnauthorized: the credentials are
\* wrong, the header is malformed, or there is no header and no bakery or no
\* identity location.
ResolverRefuses ==
    \/ call.req.Authorization \in WrongHeaders \cup MalformedHeaders
    \/ call.req.Authorization = <<>> /\ ~TrustConfigured

\* Token verification fails, and not with a verification error.
VerificationBroken ==
    call.verify.err # Nil /\ call.verify.err.cause \notin
        {VerificationError, "not asked"}

\* C10 as stated: on an ACL without "everyone", every failure of the
\* resolver that is no verification error makes authorize fail with
\* Unauthorized, a failure of token verification that is no verification
\* error included.
C10_Original ==
    (call.op = "authorize" /\ ~Open(call.acl)
        /\ (ResolverRefuses \/ VerificationBroken))
        => Outcome(ret.err) = "Unauthorized"

\* C10 as amended: on an ACL without "everyone", wrong administrator
\* credentials, a malformed header and a missing bakery or identity location
\* make authorize fail with Unauthorized; a failure of token verification
\* that is no verification error makes authorize fail with an error that
\* keeps the message and has no cause but itself, so not Unauthorized, and
\* nothing is minted.
C10_ResolverFailure ==
    /\ (call.op = "authorize" /\ ~Open(call.acl) /\ ResolverRefuses)
          => Outcome(ret.err) = "Unauthorized"
    /\ (call.op = "authorize" /\ ~Open(call.acl) /\ VerificationBroken)
          => /\ ret.err.cause = "self"
             /\ ret.err.msg = call.verify.err.msg
             /\ Outcome(ret.err) = "Failure"
             /\ Count(ret.calls, "NewMacaroon") = 0

C10_Witness ==
    /\ call.op = "authorize"
    /\ call.acl = <<Bob>>
    /\ VerificationBroken
    /\ Outcome(ret.err) = "Failure"

===========================================================================
